---- MODULE Spec2Model ----
(***************************************************************************)
(* Streamable HTTP transport manager of the Redshift MCP server            *)
(* (transports/streamable-http.ts, middleware/auth.ts).                    *)
(*                                                                         *)
(* Encoding of JavaScript values:                                          *)
(*   - a session id is a positive integer (randomUUID() is modelled as a   *)
(*     fresh id); 0 is `undefined` (header absent, transport.sessionId     *)
(*     not yet set) and -1 is the empty string, both falsy in JavaScript;  *)
(*   - a transport is named by a positive integer, 0 is `undefined`;       *)
(*   - a string that the code inspects (Authorization header, API token,   *)
(*     request path) is a sequence of symbols.                             *)
(***************************************************************************)
EXTENDS Integers, Sequences, FiniteSets, TLC

VARIABLES
    options,      \* this.options (StreamableHttpOptions), fixed at construction
    transports,   \* this.transports : Map<sessionId, transport>; 0 = no entry
    tr,           \* the StreamableHTTPServerTransport objects created so far
    ntr,          \* number of transports constructed
    nextSid,      \* number of session ids generated by sessionIdGenerator
    engine,       \* this.server's current transport (Server.transport); 0 = none
    inflight,     \* requests whose async handler is suspended at an await
    nreq,         \* number of requests received
    resp,         \* the response written last, and the request it answers
    env,          \* process.env as main reads it
    pc,           \* where the process is: main, serving, shutdown, ...
    httpServer,   \* this.httpServer: "none", "listening" or "closed"
    log,          \* what the process has done to start and to stop, in order
    closing,      \* the transports the shutdown handler has called close() on
    calls,        \* the requests the MCP server's handlers are working on
    clients,      \* the clients of RedshiftTools' pg.Pool
    stmt          \* the SQL statement sent to the database last

vars == <<options, transports, tr, ntr, nextSid, engine, inflight, nreq, resp,
          env, pc, httpServer, log, closing, calls, clients, stmt>>

\* The MCP server's handlers and its RedshiftTools
tools == <<calls, clients, stmt>>

\* The state of the process around the manager
process == <<env, pc, httpServer, log, closing, tools>>

----------------------------------------------------------------------------
(* Bounds *)

MaxRequests == 3     \* requests received in one behaviour
MaxInflight == 2     \* handlers suspended at an await at the same time
MaxCalls == 2        \* requests the MCP server's handlers receive
PoolSize == 2        \* clients of the connection pool

----------------------------------------------------------------------------
(* Inputs *)

Methods == {"POST", "GET", "DELETE", "OPTIONS"}

\* Request paths, as sequences of segments: "/" is <<>>, "/mcp" is <<"mcp">>.
Paths == { <<"mcp">>, <<>>, <<"health">>, <<"ready">>, <<"register">>,
           <<".well-known", "oauth-authorization-server">>, <<"admin">> }

\* options.mcpEndpoint as main passes it
McpEndpoint == <<"mcp">>

\* Symbols of header strings: the word "Bearer" in two spellings, another
\* scheme word, white space, and token characters.
BearerWords == {"Bearer", "BEARER"}

\* The API token a deployment configures (a non-empty string without white
\* space); the header values below carry it, other tokens and malformed forms.
Tokens == { <<"a">> }

\* Values of the Authorization header; <<>> is the absent (or empty) header.
AuthHeaders == { <<>>,
                 <<"Bearer", "sp", "a">>,
                 <<"BEARER", "sp", "sp", "a">>,
                 <<"Bearer", "sp", "b">>,
                 <<"a">> }

\* The header is read by the auth middleware alone: without that middleware
\* its value is immaterial and requests are drawn without it.
AuthInputs(installed) == IF installed THEN AuthHeaders ELSE { <<>> }

\* Values of the mcp-session-id header: ids, 0 (absent), -1 (empty string)
SidHeaders == (-1) .. MaxRequests

----------------------------------------------------------------------------
(* Objects *)

NoTransport == [kind |-> "none", sessionId |-> 0, closed |-> FALSE, stream |-> FALSE,
                eventStore |-> 0]

IdleSlot == [pc |-> "idle", n |-> 0, isInit |-> FALSE, transport |-> 0, capture |-> 0]

\* A response: the number n of the request it answers, the HTTP status, the
\* kind of body, the JSON-RPC error code and message of an error body, the
\* mcp-session-id header, and the transport that wrote it (0: the manager or
\* a middleware).  Status 0 stands for a request that is never answered.
\* cors: the response carries the Access-Control-Allow-Origin, -Credentials,
\* -Headers and -Methods headers, which the CORS middleware, when installed,
\* sets on the response of every request that reaches it (lines 60-72).
\* json: the fields of the JSON body the /health and /ready routes write.
NoJson == [status |-> "", mode |-> "", activeSessions |-> 0]

Response(n, status, code, body, message, sessionId, transport) ==
    [n |-> n, status |-> status, code |-> code, body |-> body,
     message |-> message, sessionId |-> sessionId, transport |-> transport,
     cors |-> options.enableCors, json |-> NoJson]

\* A response written before the request has reached the CORS middleware
BeforeCors(response) == [response EXCEPT !.cors = FALSE]

NoResponse == BeforeCors(Response(0, 0, 0, "none", "", 0, 0))

Slots == 1 .. MaxInflight
TransportIds == 1 .. MaxRequests

\* A request in the hands of a handler of the MCP server: the handler, the
\* tool or resource named, the RedshiftTools operations it has yet to
\* perform, where the current operation stands (pc, the index i of its next
\* statement, the pooled client it holds), the statement whose error the
\* operation threw, what the handler returned, and how often the operation
\* sent ROLLBACK and released its client.
IdleCall == [handler |-> "none", name |-> "", ops |-> <<>>, pc |-> "idle", i |-> 0,
             client |-> 0, error |-> "none", result |-> "none",
             rollbacks |-> 0, releases |-> 0]

\* A pooled client: checked out or not, and the transaction open on its
\* connection.
IdleClient == [held |-> FALSE, txn |-> "none"]

\* A statement sent: by which call, on which client, its kind, and the
\* transaction open on the client when it was sent.
NoStatement == [call |-> 0, client |-> 0, kind |-> "none", txn |-> "none"]

CallIds == 1 .. MaxCalls
ClientIds == 1 .. PoolSize

\* The statements RedshiftTools sends
StatementKinds == {"BEGIN", "user", "ROLLBACK", "columns", "statistics",
                   "findColumn", "schemas", "tables", "sample"}

----------------------------------------------------------------------------
(* middleware/auth.ts *)

\* authHeader.replace(/^Bearer\s+/i, ""): drop a leading "Bearer" word (any
\* letter case) together with ALL the white space after it; a header the
\* pattern does not match is returned unchanged.
RECURSIVE DropSpaces(_)
DropSpaces(s) ==
    IF s # <<>> /\ Head(s) = "sp" THEN DropSpaces(Tail(s)) ELSE s

StripBearer(h) ==
    IF Len(h) >= 2 /\ h[1] \in BearerWords /\ h[2] = "sp"
    THEN DropSpaces(Tail(h))
    ELSE h

\* req.path.startsWith("/.well-known/")
StartsWithWellKnown(path) == Len(path) >= 2 /\ path[1] = ".well-known"

\* Mutant: the token comparison is missing.
AuthMiddlewareAnyToken(token, path, method, authHeader) ==
    IF path = <<"health">> \/ path = <<"ready">> THEN "next"
    ELSE IF method = "OPTIONS" THEN "next"
    ELSE IF StartsWithWellKnown(path) \/ path = <<"register">> THEN "next"
    ELSE IF authHeader = <<>> THEN "missing"
    ELSE "next"

\* Mutant: /health and /ready are not exempt.
AuthMiddlewareProbesProtected(token, path, method, authHeader) ==
    IF method = "OPTIONS" THEN "next"
    ELSE IF StartsWithWellKnown(path) \/ path = <<"register">> THEN "next"
    ELSE IF authHeader = <<>> THEN "missing"
    ELSE IF StripBearer(authHeader) # token THEN "invalid"
    ELSE "next"

\* Mutant: OPTIONS requests are not exempt.
AuthMiddlewareOptionsProtected(token, path, method, authHeader) ==
    IF path = <<"health">> \/ path = <<"ready">> THEN "next"
    ELSE IF StartsWithWellKnown(path) \/ path = <<"register">> THEN "next"
    ELSE IF authHeader = <<>> THEN "missing"
    ELSE IF StripBearer(authHeader) # token THEN "invalid"
    ELSE "next"

\* Mutant: the discovery paths are not exempt.
AuthMiddlewareDiscoveryProtected(token, path, method, authHeader) ==
    IF path = <<"health">> \/ path = <<"ready">> THEN "next"
    ELSE IF method = "OPTIONS" THEN "next"
    ELSE IF authHeader = <<>> THEN "missing"
    ELSE IF StripBearer(authHeader) # token THEN "invalid"
    ELSE "next"

\* createAuthMiddleware(config)(req, res, next): "next" when the request is
\* passed on, otherwise the 401 it answers with.
AuthMiddleware(token, path, method, authHeader) ==
    IF path = <<"health">> \/ path = <<"ready">> THEN "next"
    ELSE IF method = "OPTIONS" THEN "next"
    ELSE IF StartsWithWellKnown(path) \/ path = <<"register">> THEN "next"
    ELSE IF authHeader = <<>> THEN "missing"
    ELSE IF StripBearer(authHeader) # token THEN "invalid"
    ELSE "next"

----------------------------------------------------------------------------
(* StreamableHttpTransportManager: middleware chain and route table *)

\* setupMiddleware: the auth middleware is installed only when
\* options.enableAuth && options.apiToken
AuthInstalled == options.enableAuth /\ options.apiToken # <<>>

Gate(path, method, authHeader) ==
    IF AuthInstalled
    THEN AuthMiddleware(options.apiToken, path, method, authHeader)
    ELSE "next"

\* The CORS middleware ends an OPTIONS request with 204.
CorsEnds(method) == options.enableCors /\ method = "OPTIONS"

\* setupRoutes: the handler registered for (method, path), "none" without one.
IsEndpoint(path) == path = McpEndpoint \/ path = <<>>
EndpointPaths == {p \in Paths : IsEndpoint(p)}

Route(method, path) ==
    IF IsEndpoint(path) /\ method = "POST" THEN "handlePost"
    ELSE IF IsEndpoint(path) /\ method = "GET" THEN "handleGet"
    ELSE IF IsEndpoint(path) /\ method = "DELETE" THEN "handleDelete"
    ELSE IF path = <<"health">> /\ method = "GET" THEN "health"
    ELSE IF path = <<"ready">> /\ method = "GET" THEN "ready"
    ELSE "none"

\* The keys of a registry
RegisteredIdsOf(map) == {s \in 1 .. MaxRequests : map[s] # 0}

\* this.transports.has(sessionId), guarded by the truthiness of sessionId
Has(sid) == sid > 0 /\ transports[sid] # 0

\* Mutant: the isInitializeRequest(req.body) test is missing.
PostCaseNoHeaderCreates(sid, isInit) ==
    IF options.enableStatelessMode THEN "stateless"
    ELSE IF sid > 0 /\ Has(sid) THEN "reuse"
    ELSE IF ~(sid > 0) THEN "create"
    ELSE "reject"

\* Mutant: the !sessionId test is missing.
PostCaseInitCreates(sid, isInit) ==
    IF options.enableStatelessMode THEN "stateless"
    ELSE IF sid > 0 /\ Has(sid) THEN "reuse"
    ELSE IF isInit THEN "create"
    ELSE "reject"

\* Mutant: the stateless branch is missing.
PostCaseStatefulOnly(sid, isInit) ==
    IF sid > 0 /\ Has(sid) THEN "reuse"
    ELSE IF ~(sid > 0) /\ isInit THEN "create"
    ELSE "reject"

\* handlePost, lines 156-184: which branch a POST takes.
PostCase(sid, isInit) ==
    IF options.enableStatelessMode THEN "stateless"
    ELSE IF sid > 0 /\ Has(sid) THEN "reuse"
    ELSE IF ~(sid > 0) /\ isInit THEN "create"
    ELSE "reject"

\* handleGet / handleDelete: !sessionId || !this.transports.has(sessionId)
InvalidSession(sid) == ~(sid > 0) \/ ~Has(sid)

----------------------------------------------------------------------------
(* State *)

TypeOK ==
    /\ options \in [enableStatelessMode : BOOLEAN, enableCors : BOOLEAN,
                    enableAuth : BOOLEAN, apiToken : Tokens \cup {<<>>},
                    enableResumability : BOOLEAN]
    /\ transports \in [1 .. MaxRequests -> 0 .. MaxRequests]
    /\ tr \in [TransportIds -> [kind : {"none", "stateful", "stateless"},
                                sessionId : 0 .. MaxRequests,
                                closed : BOOLEAN, stream : BOOLEAN,
                                eventStore : 0 .. MaxRequests]]
    /\ ntr \in 0 .. MaxRequests
    /\ nextSid \in 0 .. MaxRequests
    /\ engine \in 0 .. MaxRequests
    /\ inflight \in [Slots -> [pc : {"idle", "connect", "engine"}, n : 0 .. MaxRequests,
                               isInit : BOOLEAN, transport : 0 .. MaxRequests,
                               capture : 0 .. MaxRequests]]
    /\ nreq \in 0 .. MaxRequests
    /\ pc \in {"main", "stdio", "serving", "shutdown", "draining", "exited",
              "closeLoop", "closeListener", "closeFailed", "closed"}
    /\ httpServer \in {"none", "listening", "closed"}
    /\ log \in Seq({"exit(1)", "closeTransport", "errorClosing", "clear",
                    "closeListener", "exit(0)"})
    /\ closing \subseteq TransportIds
    /\ calls \in [CallIds ->
          [handler : {"none", "CallTool", "ListResources", "ReadResource"},
           name : STRING, ops : Seq(STRING),
           pc : {"idle", "connect", "stmt", "rollback", "done"},
           i : 0 .. 2, client : 0 .. PoolSize,
           error : {"none", "connect", "unknown"} \cup StatementKinds,
           result : {"none", "content", "isError", "resources", "empty",
                     "contents", "thrown"},
           rollbacks : 0 .. 2, releases : 0 .. 2]]
    /\ clients \in [ClientIds -> [held : BOOLEAN, txn : {"none", "readonly"}]]
    /\ stmt \in [call : 0 .. MaxCalls, client : 0 .. PoolSize,
                 kind : {"none"} \cup StatementKinds, txn : {"none", "readonly"}]

\* The configurations main constructs the manager with: enableCors is
\* always true, and enableAuth without a token makes main exit before it
\* constructs anything.
Configurations ==
    {o \in [enableStatelessMode : BOOLEAN, enableCors : {TRUE},
            enableAuth : BOOLEAN, apiToken : Tokens \cup {<<>>},
            enableResumability : BOOLEAN] :
        o.enableAuth => o.apiToken # <<>>}

\* process.env: the variables main reads (DATABASE_URL is set).
Environments ==
    [TRANSPORT_MODE : {"http", "stdio"}, STATELESS_MODE : BOOLEAN,
     ENABLE_AUTH : BOOLEAN, API_TOKEN : Tokens \cup {<<>>},
     ENABLE_RESUMABILITY : BOOLEAN]

\* ENABLE_RESUMABILITY is false unless set to "true" (main, line 31).  No
\* handler of the manager reads the option after the transport is built, so
\* it is drawn as the default except where event stores are examined.
DefaultEnvironments == {e \in Environments : ~e.ENABLE_RESUMABILITY}

\* Mutant: main does not validate the auth configuration.
MainNeverExits(e) == FALSE

\* main, lines 37-41: ENABLE_AUTH without API_TOKEN ends the process.
MainExits(e) == e.ENABLE_AUTH /\ e.API_TOKEN = <<>>

\* main, lines 60-69: the options main constructs the manager with.
OptionsOf(e) ==
    [enableStatelessMode |-> e.STATELESS_MODE, enableCors |-> TRUE,
     enableAuth |-> e.ENABLE_AUTH, apiToken |-> e.API_TOKEN,
     enableResumability |-> e.ENABLE_RESUMABILITY]

\* The manager as its constructor leaves it, listening (main, line 71).
\* createRedshiftMcpServer (main, line 46): the handlers are set, the pool
\* is created, nothing has been asked of them.
NoCalls ==
    /\ calls = [c \in CallIds |-> IdleCall]
    /\ clients = [cl \in ClientIds |-> IdleClient]
    /\ stmt = NoStatement

Constructed(envs) ==
    /\ env \in {e \in envs : e.TRANSPORT_MODE = "http" /\ ~MainExits(e)}
    /\ options = OptionsOf(env)
    /\ options \in Configurations
    /\ pc = "serving"
    /\ httpServer = "listening"
    /\ log = <<>>
    /\ closing = {}
    /\ NoCalls
    /\ transports = [s \in 1 .. MaxRequests |-> 0]
    /\ tr = [t \in TransportIds |-> NoTransport]
    /\ ntr = 0
    /\ nextSid = 0
    /\ engine = 0
    /\ inflight = [k \in Slots |-> IdleSlot]
    /\ nreq = 0
    /\ resp = NoResponse

Init == Constructed(DefaultEnvironments)

----------------------------------------------------------------------------
(* Helpers of the actions *)

FreeSlots == {k \in Slots : inflight[k].pc = "idle"}
FreeSlot == CHOOSE k \in FreeSlots : \A j \in FreeSlots : k <= j

\* A request is received and counted.
Running == pc \in {"serving", "shutdown", "draining",
                    "closeLoop", "closeListener", "closeFailed"}

Received ==
    /\ Running
    /\ nreq < MaxRequests
    /\ nreq' = nreq + 1
    /\ UNCHANGED process

\* The request passes the auth middleware and the CORS middleware.
Passes(method, path, auth) ==
    Gate(path, method, auth) = "next" /\ ~CorsEnds(method)

\* A response written by the manager or a middleware itself.
Answer(status, code, body, message) ==
    resp' = Response(nreq + 1, status, code, body, message, 0, 0)

\* The error bodies: auth.ts lines 33-40 and 46-53, handlePost lines 175-182
MissingHeader == [status |-> 401, code |-> -32000,
                  message |-> "Missing Authorization header"]
InvalidToken == [status |-> 401, code |-> -32000,
                 message |-> "Invalid authorization token"]
\* Mutant: an unknown session is answered as "not found".
BadRequestAsNotFound == [status |-> 404, code |-> -32001,
                         message |-> "Session not found"]

BadRequest == [status |-> 400, code |-> -32000,
               message |-> "Bad Request: Missing or invalid session ID"]

\* The 401 the auth middleware answers with
AuthError(gate) == IF gate = "missing" THEN MissingHeader ELSE InvalidToken

----------------------------------------------------------------------------
(* Transport factory *)

\* new InMemoryEventStore() (line 276): an object distinct from every store
\* created before; stores are numbered in the order created.
NewEventStore == Cardinality({t \in TransportIds : tr[t].eventStore # 0}) + 1

\* Mutant: one event store, the first, serves every stateful transport.
EventStoreShared(kind) ==
    IF kind = "stateful" /\ options.enableResumability THEN 1 ELSE 0

\* The eventStore option the transport is constructed with; 0 is undefined.
\* Lines 275-277 and 282; createStatelessTransport passes none (308-311).
EventStoreOf(kind) ==
    IF kind = "stateful" /\ options.enableResumability THEN NewEventStore ELSE 0

\* new StreamableHTTPServerTransport(...) followed by server.connect(transport),
\* up to the await: the transport exists and the Server's single transport
\* reference now points to it.  Lines 274-298 and 307-314.
CreateAndConnect(kind) ==
    /\ ntr' = ntr + 1
    /\ tr' = [tr EXCEPT ![ntr + 1] = [kind |-> kind, sessionId |-> 0,
                                      closed |-> FALSE, stream |-> FALSE,
                                      eventStore |-> EventStoreOf(kind)]]
    /\ engine' = ntr + 1

\* Mutant: onsessioninitialized does not store the transport.
RegisteredNothing(t, sid) == transports

\* onsessioninitialized (lines 283-286): this.transports.set(sid, transport)
Registered(t, sid) == [transports EXCEPT ![sid] = t]

\* transport.handleRequest(req, res, req.body) for a POST, up to the point
\* where the message is handed to the Server.  An initialization request on a
\* transport with a sessionIdGenerator generates the session id and runs
\* onsessioninitialized, which registers the transport.  The Server answers
\* through the transport it is connected to at that moment.
\* `id` is the value sessionIdGenerator returns if it is called.
DispatchWithId(k, n, t, isInit, trs, id) ==
    /\ IF isInit /\ trs[t].kind = "stateful" /\ trs[t].sessionId = 0
       THEN /\ nextSid < MaxRequests
            /\ nextSid' = nextSid + 1
            /\ tr' = [trs EXCEPT ![t].sessionId = id]
            /\ transports' = Registered(t, id)
       ELSE /\ tr' = trs
            /\ UNCHANGED <<nextSid, transports>>
    /\ inflight' = [inflight EXCEPT ![k] =
                      [pc |-> "engine", n |-> n, isInit |-> isInit,
                       transport |-> t, capture |-> engine]]

\* Mutant: sessionIdGenerator returns the same id every time.
DispatchFixedId(k, n, t, isInit, trs) == DispatchWithId(k, n, t, isInit, trs, 1)

\* sessionIdGenerator is randomUUID (line 280): an id not generated before.
Dispatch(k, n, t, isInit, trs) == DispatchWithId(k, n, t, isInit, trs, nextSid + 1)

----------------------------------------------------------------------------
(* Requests that never reach a handler *)

\* The auth middleware answers 401.
Denied(method, path, auth) ==
    /\ Received
    /\ Gate(path, method, auth) # "next"
    /\ LET error == AuthError(Gate(path, method, auth)) IN
          resp' = BeforeCors(Response(nreq + 1, error.status, error.code,
                                      "jsonrpc", error.message, 0, 0))
    /\ UNCHANGED <<options, transports, tr, ntr, nextSid, engine, inflight>>

\* The CORS middleware answers an OPTIONS request with 204.
Preflight(path, auth) ==
    /\ Received
    /\ Gate(path, "OPTIONS", auth) = "next"
    /\ CorsEnds("OPTIONS")
    /\ Answer(204, 0, "none", "")
    /\ UNCHANGED <<options, transports, tr, ntr, nextSid, engine, inflight>>

\* Express's 404 page names the path requested ("Cannot GET /register");
\* of the path its first segment is kept.
CannotPath(path) == IF path = <<>> THEN "/" ELSE path[1]

\* No route matches: Express answers 404.
NotRouted(method, path, auth) ==
    /\ Received
    /\ Passes(method, path, auth)
    /\ Route(method, path) = "none"
    /\ Answer(404, 0, "html", CannotPath(path))
    /\ UNCHANGED <<options, transports, tr, ntr, nextSid, engine, inflight>>

\* Mutant: /health counts the transports constructed.
ActiveSessionsCountsTransports == ntr

\* this.transports.size
ActiveSessions == Cardinality(RegisteredIdsOf(transports))

\* The body of GET /health (lines 122-127, the timestamp left out) and of
\* GET /ready (line 133)
ProbeBody(route) ==
    IF route = "health"
    THEN [status |-> "ok",
          mode |-> IF options.enableStatelessMode THEN "stateless" ELSE "stateful",
          activeSessions |-> ActiveSessions]
    ELSE [status |-> "ready", mode |-> "", activeSessions |-> 0]

\* GET /health and GET /ready
Probe(path, auth) ==
    /\ Received
    /\ Passes("GET", path, auth)
    /\ Route("GET", path) \in {"health", "ready"}
    /\ resp' = [Response(nreq + 1, 200, 0, Route("GET", path), "", 0, 0)
                  EXCEPT !.json = ProbeBody(Route("GET", path))]
    /\ UNCHANGED <<options, transports, tr, ntr, nextSid, engine, inflight>>

----------------------------------------------------------------------------
(* handlePost *)

\* Lines 157-160 and 167-170: create...Transport() runs up to its await of
\* server.connect; the handler is suspended there.
PostNew(kind, isInit) ==
    /\ FreeSlots # {}
    /\ CreateAndConnect(kind)
    /\ inflight' = [inflight EXCEPT ![FreeSlot] =
                      [pc |-> "connect", n |-> nreq + 1, isInit |-> isInit,
                       transport |-> ntr + 1, capture |-> 0]]
    /\ UNCHANGED <<transports, nextSid, resp>>

\* Mutant: the handler is suspended between the lookup of the transport and
\* the call of its handleRequest.
PostReuseDeferred(sid, isInit) ==
    /\ FreeSlots # {}
    /\ inflight' = [inflight EXCEPT ![FreeSlot] =
                      [pc |-> "connect", n |-> nreq + 1, isInit |-> isInit,
                       transport |-> transports[sid], capture |-> 0]]
    /\ UNCHANGED <<tr, nextSid, transports, resp, ntr, engine>>

\* Lines 162-165 and 187: the registered transport is looked up and handed
\* the request in the same turn; it refuses a second initialization.
PostReuse(sid, isInit) ==
    /\ IF isInit
       THEN /\ resp' = Response(nreq + 1, 400, -32600, "jsonrpc",
                                "Invalid Request: Server already initialized",
                                0, transports[sid])
            /\ UNCHANGED <<tr, nextSid, transports, inflight>>
       ELSE /\ FreeSlots # {}
            /\ Dispatch(FreeSlot, nreq + 1, transports[sid], isInit, tr)
            /\ UNCHANGED resp
    /\ UNCHANGED <<ntr, engine>>

\* Lines 172-184: invalid request
PostReject ==
    /\ Answer(BadRequest.status, BadRequest.code, "jsonrpc", BadRequest.message)
    /\ UNCHANGED <<transports, tr, ntr, nextSid, engine, inflight>>

\* handlePost(req, res) for a request with this mcp-session-id header and
\* this kind of body, up to its first await or its return.
HandlePost(sid, isInit) ==
    /\ Received
    /\ LET case == PostCase(sid, isInit) IN
       IF case = "stateless" THEN PostNew("stateless", isInit)
       ELSE IF case = "reuse" THEN PostReuse(sid, isInit)
       ELSE IF case = "create" THEN PostNew("stateful", isInit)
       ELSE PostReject
    /\ UNCHANGED options

\* A POST passes the middleware chain and is routed to handlePost.
Post(path, auth, sid, isInit) ==
    /\ Passes("POST", path, auth)
    /\ Route("POST", path) = "handlePost"
    /\ HandlePost(sid, isInit)

\* handlePost resumes after `await this.create...Transport()` and calls
\* transport.handleRequest (line 187).
AfterConnect(k) ==
    /\ Running
    /\ inflight[k].pc = "connect"
    /\ Dispatch(k, inflight[k].n, inflight[k].transport, inflight[k].isInit, tr)
    /\ UNCHANGED <<options, ntr, engine, nreq, resp, process>>

\* The Server has handled the message and sends the response through the
\* transport it captured; the transport writes it with its session id header.
EngineRespond(k) ==
    /\ Running
    /\ inflight[k].pc = "engine"
    /\ inflight[k].capture = inflight[k].transport
    /\ ~tr[inflight[k].transport].closed
    /\ resp' = Response(inflight[k].n, 200, 0, "jsonrpc", "",
                         tr[inflight[k].transport].sessionId, inflight[k].transport)
    /\ inflight' = [inflight EXCEPT ![k] = IdleSlot]
    /\ UNCHANGED <<options, transports, tr, ntr, nextSid, engine, nreq, process>>

\* The response goes to another transport, to none, or to a closed one: the
\* request is never answered.
ResponseLost(k) ==
    /\ Running
    /\ inflight[k].pc = "engine"
    /\ \/ inflight[k].capture # inflight[k].transport
       \/ tr[inflight[k].transport].closed
    /\ resp' = Response(inflight[k].n, 0, 0, "lost", "", 0, inflight[k].capture)
    /\ inflight' = [inflight EXCEPT ![k] = IdleSlot]
    /\ UNCHANGED <<options, transports, tr, ntr, nextSid, engine, nreq, process>>

\* The body of the 500 the catch block of handlePost writes (lines 191-198)
InternalError == [status |-> 500, code |-> -32603,
                  message |-> "Internal server error"]

\* Mutant: the catch block writes its 500 without testing res.headersSent.
CatchPostAlwaysWrites(n, headersSent, started) ==
    Response(n, InternalError.status, InternalError.code, "jsonrpc",
             InternalError.message, 0, 0)

\* The catch block of handlePost (lines 188-200): the response of request n
\* after it ran, `started` being what the transport had written of it so far.
CatchPost(n, headersSent, started) ==
    IF ~headersSent
    THEN Response(n, InternalError.status, InternalError.code, "jsonrpc",
                  InternalError.message, 0, 0)
    ELSE started

\* An error is thrown in the try block of handlePost while the handler is
\* suspended: `await this.create...Transport()` rejects (nothing is written
\* yet), or `await transport.handleRequest()` rejects, before the transport
\* has written anything or after it has started the response.  The catch
\* block runs and the handler returns.
PostThrows(k, headersSent) ==
    /\ Running
    /\ inflight[k].pc \in {"connect", "engine"}
    /\ headersSent => /\ inflight[k].pc = "engine"
                      /\ inflight[k].capture = inflight[k].transport
                      /\ ~tr[inflight[k].transport].closed
    /\ resp' = CatchPost(inflight[k].n, headersSent,
                         Response(inflight[k].n, 200, 0, "jsonrpc", "",
                                  tr[inflight[k].transport].sessionId,
                                  inflight[k].transport))
    /\ inflight' = [inflight EXCEPT ![k] = IdleSlot]
    /\ UNCHANGED <<options, transports, tr, ntr, nextSid, engine, nreq, process>>

----------------------------------------------------------------------------
(* handleGet *)

\* Mutant: a request without a registered session is handed to a transport.
SessionRejectForwards ==
    /\ resp' = Response(nreq + 1, 200, 0, "sse", "", 0, 1)
    /\ UNCHANGED <<transports, tr, ntr, nextSid, engine, inflight>>

\* Lines 214-218: absent or unknown session id.  The body is plain text.
SessionReject ==
    /\ Answer(400, 0, "text", "Invalid or missing session ID")
    /\ UNCHANGED <<transports, tr, ntr, nextSid, engine, inflight>>

\* Lines 220-234: the registered transport opens the SSE stream of the
\* session; it refuses a second stream while one is open (409).
GetStream(sid) ==
    /\ resp' = IF tr[transports[sid]].stream
               THEN Response(nreq + 1, 409, -32000, "jsonrpc",
                             "Conflict: Only one SSE stream is allowed per session",
                             0, transports[sid])
               ELSE Response(nreq + 1, 200, 0, "sse", "", sid, transports[sid])
    /\ tr' = [tr EXCEPT ![transports[sid]].stream = TRUE]
    /\ UNCHANGED <<transports, ntr, nextSid, engine, inflight>>

HandleGet(sid) ==
    /\ Received
    /\ IF InvalidSession(sid) THEN SessionReject ELSE GetStream(sid)
    /\ UNCHANGED options

\* A GET passes the middleware chain and is routed to handleGet.
Get(path, auth, sid) ==
    /\ Passes("GET", path, auth)
    /\ Route("GET", path) = "handleGet"
    /\ HandleGet(sid)

\* Mutant: closing the stream's connection ends the session.
ConnectionClosedEndsSession(t) ==
    /\ Running
    /\ tr[t].stream
    /\ tr' = [tr EXCEPT ![t].stream = FALSE, ![t].closed = TRUE]
    /\ transports' = [s \in 1 .. MaxRequests |->
                        IF transports[s] = t THEN 0 ELSE transports[s]]
    /\ UNCHANGED <<options, ntr, nextSid, engine, inflight, nreq, resp, process>>

\* The client closes the connection of the SSE stream: res.on("close") at
\* lines 230-232 only logs; the transport drops the stream.
ConnectionClosed(t) ==
    /\ Running
    /\ tr[t].stream
    /\ tr' = [tr EXCEPT ![t].stream = FALSE]
    /\ UNCHANGED <<options, transports, ntr, nextSid, engine, inflight, nreq, resp,
                   process>>

----------------------------------------------------------------------------
(* handleDelete *)

\* Mutant: the close handler leaves the registry alone.
OnCloseKeepsEntry(t) == transports

\* Mutant: the close handler empties the registry.
OnCloseClearsAll(t) == [s \in 1 .. MaxRequests |-> 0]

\* Mutant: the close handler removes the oldest entry of the registry.
OnCloseFirstEntry(t) ==
    [s \in 1 .. MaxRequests |->
        IF \A u \in RegisteredIdsOf(transports) : s <= u THEN 0 ELSE transports[s]]

\* transport.onclose as createStatefulTransport sets it (lines 290-295):
\* the registry after transport t reported close.
OnClose(t) ==
    IF tr[t].sessionId > 0
    THEN [transports EXCEPT ![tr[t].sessionId] = 0]
    ELSE transports

\* Lines 260-262: the transport terminates the session: it closes itself,
\* which runs onclose and disconnects the Server from its transport.
DeleteSession(sid) ==
    /\ tr' = [tr EXCEPT ![transports[sid]].closed = TRUE,
                        ![transports[sid]].stream = FALSE]
    /\ transports' = OnClose(transports[sid])
    /\ engine' = 0
    /\ resp' = Response(nreq + 1, 200, 0, "none", "", 0, transports[sid])
    /\ UNCHANGED <<ntr, nextSid, inflight>>

\* Lines 254-258 reject like handleGet does.
HandleDelete(sid) ==
    /\ Received
    /\ IF InvalidSession(sid) THEN SessionReject ELSE DeleteSession(sid)
    /\ UNCHANGED options

\* A DELETE passes the middleware chain and is routed to handleDelete.
Delete(path, auth, sid) ==
    /\ Passes("DELETE", path, auth)
    /\ Route("DELETE", path) = "handleDelete"
    /\ HandleDelete(sid)

\* A transport reports close: the SDK runs the transport's onclose, which is
\* the callback of lines 290-295 for a stateful transport and none of the
\* manager's for a stateless one (lines 308-311), and disconnects the Server.
\* Nothing in the SDK keeps it from reporting close again, or after its
\* entry has gone.
TransportCloses(t) ==
    /\ Running
    /\ tr[t].kind # "none"
    /\ tr' = [tr EXCEPT ![t].closed = TRUE, ![t].stream = FALSE]
    /\ transports' = OnClose(t)
    /\ engine' = 0
    /\ UNCHANGED <<options, ntr, nextSid, inflight, nreq, resp, process>>

----------------------------------------------------------------------------
(* The process: main, and the shutdown handler that listen() installs *)

\* The state before main has run: nothing is constructed.
NoOptions == [enableStatelessMode |-> FALSE, enableCors |-> FALSE,
              enableAuth |-> FALSE, apiToken |-> <<>>,
              enableResumability |-> FALSE]

InitProcess ==
    /\ env \in DefaultEnvironments
    /\ options = NoOptions
    /\ transports = [s \in 1 .. MaxRequests |-> 0]
    /\ tr = [t \in TransportIds |-> NoTransport]
    /\ ntr = 0
    /\ nextSid = 0
    /\ engine = 0
    /\ inflight = [k \in Slots |-> IdleSlot]
    /\ nreq = 0
    /\ resp = NoResponse
    /\ pc = "main"
    /\ httpServer = "none"
    /\ log = <<>>
    /\ closing = {}
    /\ NoCalls

\* main(): the auth configuration is validated first (lines 37-41); then
\* the MCP server is created and the transport selected; in http mode the
\* manager is constructed and listens (lines 58-71).
Main ==
    /\ pc = "main"
    /\ IF MainExits(env)
       THEN /\ pc' = "exited"
            /\ log' = Append(log, "exit(1)")
            /\ UNCHANGED <<options, httpServer>>
       ELSE IF env.TRANSPORT_MODE = "stdio"
       THEN /\ pc' = "stdio"
            /\ UNCHANGED <<options, httpServer, log>>
       ELSE /\ options' = OptionsOf(env)
            /\ httpServer' = "listening"
            /\ pc' = "serving"
            /\ UNCHANGED log
    /\ UNCHANGED <<transports, tr, ntr, nextSid, engine, inflight, nreq, resp, env,
                   closing, tools>>

\* The Map iterator of the shutdown loop (line 344).  A Map iterates in
\* insertion order, session ids are inserted in the order generated, an
\* entry deleted before the iterator reaches it is skipped and an entry
\* added during the loop is visited: the iterator stands behind the last
\* entry it yielded and yields the entries after it.
Cursor ==
    IF closing = {} THEN 0
    ELSE CHOOSE s \in {tr[t].sessionId : t \in closing} :
            \A u \in {tr[t].sessionId : t \in closing} : u <= s

Remaining == {s \in RegisteredIdsOf(transports) : s > Cursor}

NextEntry == CHOOSE s \in Remaining : \A u \in Remaining : s <= u

\* How a call of transport.close() ends: it returns, or it throws before
\* the transport has run its onclose (a throw after that leaves the manager
\* as a return does, the error logged apart).
CloseOutcomes == {"closed", "threwBefore"}

\* Mutant: an error closing a transport ends the shutdown handler.
ErrorAborts(outcome) == IF outcome = "closed" THEN "shutdown" ELSE "draining"

\* Lines 345-350: the catch block logs the error and the loop goes on.
ErrorCaught(outcome) == "shutdown"

\* Lines 344-351: `await transport.close()` for the next entry, up to the
\* await or the catch block.  A transport that closes runs its onclose and
\* disconnects the Server.
ShutdownClose(outcome) ==
    /\ closing' = closing \cup {transports[NextEntry]}
    /\ IF outcome = "threwBefore"
       THEN UNCHANGED <<tr, transports, engine>>
       ELSE /\ tr' = [tr EXCEPT ![transports[NextEntry]].closed = TRUE,
                                ![transports[NextEntry]].stream = FALSE]
            /\ transports' = OnClose(transports[NextEntry])
            /\ engine' = 0
    /\ log' = IF outcome = "closed"
              THEN Append(log, "closeTransport")
              ELSE log \o <<"closeTransport", "errorClosing">>
    /\ pc' = ErrorCaught(outcome)
    /\ UNCHANGED httpServer

\* Lines 352-362: this.transports.clear(), then this.httpServer.close(cb).
ShutdownClear ==
    /\ transports' = [s \in 1 .. MaxRequests |-> 0]
    /\ httpServer' = "closed"
    /\ log' = log \o <<"clear", "closeListener">>
    /\ pc' = "draining"
    /\ UNCHANGED <<tr, engine, closing>>

\* The loop, from where it stands to its next await or to the end of the
\* handler.
ShutdownLoop ==
    /\ IF Remaining # {}
       THEN \E outcome \in CloseOutcomes : ShutdownClose(outcome)
       ELSE ShutdownClear
    /\ UNCHANGED <<options, ntr, nextSid, inflight, nreq, resp, env, tools>>

\* SIGINT or SIGTERM: the shutdown handler starts (lines 340-341).
Signal ==
    /\ pc = "serving"
    /\ ShutdownLoop

\* The handler resumes after `await transport.close()`.
ShutdownResume ==
    /\ pc = "shutdown"
    /\ ShutdownLoop

\* The callback of httpServer.close (lines 357-360) runs once no connection
\* is open: no handler holds a request and no SSE stream is open.
Exit ==
    /\ pc = "draining"
    /\ \A k \in Slots : inflight[k].pc = "idle"
    /\ \A t \in TransportIds : ~tr[t].stream
    /\ pc' = "exited"
    /\ log' = Append(log, "exit(0)")
    /\ UNCHANGED <<options, transports, tr, ntr, nextSid, engine, inflight, nreq,
                   resp, env, httpServer, closing, tools>>

----------------------------------------------------------------------------
(* close(), the manager's public operation *)

\* Line 374: `await transport.close()` stands in no try block; when it
\* throws, the promise close() returned is rejected and nothing after the
\* loop runs.
CloseAwaited(outcome) == IF outcome = "closed" THEN "closeLoop" ELSE "closeFailed"

\* Lines 373-375: `await transport.close()` for the next value of the
\* registry's iterator, up to the await or to the rejection.
CloseTransport(outcome) ==
    /\ closing' = closing \cup {transports[NextEntry]}
    /\ IF outcome = "threwBefore"
       THEN UNCHANGED <<tr, transports, engine>>
       ELSE /\ tr' = [tr EXCEPT ![transports[NextEntry]].closed = TRUE,
                                ![transports[NextEntry]].stream = FALSE]
            /\ transports' = OnClose(transports[NextEntry])
            /\ engine' = 0
    /\ pc' = CloseAwaited(outcome)
    /\ UNCHANGED httpServer

\* Lines 376-382: this.transports.clear(); then, if the manager listens,
\* httpServer.close(cb) and the await of its callback.
CloseClear ==
    /\ transports' = [s \in 1 .. MaxRequests |-> 0]
    /\ IF httpServer = "none"
       THEN pc' = "closed" /\ UNCHANGED httpServer
       ELSE pc' = "closeListener" /\ httpServer' = "closed"
    /\ UNCHANGED <<tr, engine, closing>>

\* close() from where it stands to its next await, its rejection or its end
CloseLoop ==
    /\ IF Remaining # {}
       THEN \E outcome \in CloseOutcomes : CloseTransport(outcome)
       ELSE CloseClear
    /\ UNCHANGED <<options, ntr, nextSid, inflight, nreq, resp, env, log, tools>>

\* close() is called on the serving manager (line 372).
Close ==
    /\ pc = "serving"
    /\ CloseLoop

\* close() resumes after `await transport.close()`.
CloseResume ==
    /\ pc = "closeLoop"
    /\ CloseLoop

\* The callback of httpServer.close (line 380) runs once no connection is
\* open; the promise close() returned is resolved.
CloseResolved ==
    /\ pc = "closeListener"
    /\ \A k \in Slots : inflight[k].pc = "idle"
    /\ \A t \in TransportIds : ~tr[t].stream
    /\ pc' = "closed"
    /\ UNCHANGED <<options, transports, tr, ntr, nextSid, engine, inflight, nreq,
                   resp, env, httpServer, log, closing, tools>>

----------------------------------------------------------------------------
(* mcp/server.ts: the request handlers; core/redshift-tools.ts *)

\* The manager's own state
manager == <<options, transports, tr, ntr, nextSid, engine, inflight, nreq, resp>>

\* params.name of a tools/call request: the three tools and another name
ToolNames == {"query", "describe_table", "find_column", "drop_table"}

\* The resource a resources/read request names by its URI: a schema's
\* table listing, a table's schema, sample or statistics, and a URI of
\* another form
ResourceNames == {"tables", "schema", "sample", "statistics", "other"}

\* The RedshiftTools operations a handler performs for a request, in order.
\* CallTool: lines 151-191; ReadResource: lines 284-339; ListResources
\* (lines 222-234) lists the schemas and then the tables of each schema, of
\* which there is one here.
Operations(handler, name) ==
    IF handler = "CallTool" THEN
        IF name = "query" THEN <<"query">>
        ELSE IF name = "describe_table" THEN <<"describeTable">>
        ELSE IF name = "find_column" THEN <<"findColumn">>
        ELSE <<>>
    ELSE IF handler = "ReadResource" THEN
        IF name = "tables" THEN <<"listTables">>
        ELSE IF name = "schema" THEN <<"getTableSchema">>
        ELSE IF name = "sample" THEN <<"getSampleData">>
        ELSE IF name = "statistics" THEN <<"getTableStatistics">>
        ELSE <<>>
    ELSE <<"listSchemas", "listTables">>

\* The statements an operation of RedshiftTools sends inside its try block,
\* in order (redshift-tools.ts, lines 78-294).
Statements(op) ==
    IF op = "query" THEN <<"BEGIN", "user">>
    ELSE IF op = "describeTable" THEN <<"columns", "statistics">>
    ELSE IF op = "findColumn" THEN <<"findColumn">>
    ELSE IF op = "listSchemas" THEN <<"schemas">>
    ELSE IF op = "listTables" THEN <<"tables">>
    ELSE IF op = "getTableSchema" THEN <<"columns">>
    ELSE IF op = "getSampleData" THEN <<"sample">>
    ELSE <<"statistics">>

\* Mutant: the tools/call handler lets the error of an operation through.
CallToolRethrows(error) ==
    IF error = "none" THEN "content"
    ELSE IF error = "unknown" THEN "isError"
    ELSE "thrown"

\* The tools/call handler (lines 146-213): what it returns when the
\* operation returned (error "none"), when no tool has the name ("unknown",
\* lines 193-201) and when the operation threw (the catch at 202-212).
CallToolResult(error) == IF error = "none" THEN "content" ELSE "isError"

\* The resources/list handler (lines 220-273): its catch returns no resources.
ListResourcesResult(error) == IF error = "none" THEN "resources" ELSE "empty"

\* The resources/read handler (lines 278-348): its catch throws a new Error.
ReadResourceResult(error) == IF error = "none" THEN "contents" ELSE "thrown"

HandlerResult(handler, error) ==
    IF handler = "CallTool" THEN CallToolResult(error)
    ELSE IF handler = "ListResources" THEN ListResourcesResult(error)
    ELSE ReadResourceResult(error)

\* The call after its current operation has returned (error "none") or
\* thrown: the handler goes on to its next operation or returns.
Returned(call, error) ==
    IF error = "none" /\ Len(call.ops) > 1
    THEN [call EXCEPT !.ops = Tail(call.ops), !.pc = "connect", !.i = 0,
                      !.client = 0]
    ELSE [call EXCEPT !.ops = <<>>, !.pc = "done", !.i = 0, !.client = 0,
                      !.error = error,
                      !.result = HandlerResult(call.handler, error)]

\* The MCP server is up: over stdio, or behind the manager.
Up == pc = "stdio" \/ Running

FreeCalls == {c \in CallIds : calls[c].pc = "idle"}
FreeCall == CHOOSE c \in FreeCalls : \A d \in FreeCalls : c <= d

\* A handler receives a request and runs up to its first await.
Handle(handler, name) ==
    /\ Up
    /\ FreeCalls # {}
    /\ LET call == [IdleCall EXCEPT !.handler = handler, !.name = name,
                                    !.ops = Operations(handler, name)] IN
          calls' = [calls EXCEPT ![FreeCall] =
                      IF call.ops = <<>>
                      THEN Returned(call, "unknown")
                      ELSE [call EXCEPT !.pc = "connect"]]
    /\ UNCHANGED <<manager, env, pc, httpServer, log, closing, clients, stmt>>

\* `await this.pool.connect()`: the pool hands out a client nobody holds,
\* or the promise rejects; it is outside every try block of RedshiftTools.
PoolConnect(c, connected) ==
    /\ Up
    /\ calls[c].pc = "connect"
    /\ IF connected
       THEN \E cl \in {x \in ClientIds : ~clients[x].held} :
               /\ clients' = [clients EXCEPT ![cl].held = TRUE]
               /\ calls' = [calls EXCEPT ![c].pc = "stmt", ![c].i = 1,
                                         ![c].client = cl]
       ELSE /\ calls' = [calls EXCEPT ![c] = Returned(calls[c], "connect")]
            /\ UNCHANGED clients
    /\ UNCHANGED <<manager, env, pc, httpServer, log, closing, stmt>>

\* `await client.query(...)` inside the try block of an operation: the
\* statement is sent and succeeds or fails.  In query() a failure, or the
\* end of the try block, leads to the finally block with its awaited
\* ROLLBACK (lines 84-89); in the other operations the finally block only
\* releases the client (lines 139-141 and alike) and the operation returns
\* or throws.
ClientQuery(c, succeeds) ==
    /\ Up
    /\ calls[c].pc = "stmt"
    /\ LET call == calls[c]
           op == Head(call.ops)
           kind == Statements(op)[call.i]
           last == call.i = Len(Statements(op))
       IN  /\ stmt' = [call |-> c, client |-> call.client, kind |-> kind,
                       txn |-> clients[call.client].txn]
           /\ IF op = "query"
              THEN /\ clients' = IF kind = "BEGIN" /\ succeeds
                                 THEN [clients EXCEPT ![call.client].txn = "readonly"]
                                 ELSE clients
                   /\ calls' = [calls EXCEPT ![c] =
                                  IF ~succeeds
                                  THEN [call EXCEPT !.error = kind, !.pc = "rollback"]
                                  ELSE IF last THEN [call EXCEPT !.pc = "rollback"]
                                  ELSE [call EXCEPT !.i = call.i + 1]]
              ELSE IF ~succeeds \/ last
              THEN /\ clients' = [clients EXCEPT ![call.client].held = FALSE]
                   /\ calls' = [calls EXCEPT ![c] =
                                  Returned([call EXCEPT !.releases = call.releases + 1],
                                           IF succeeds THEN "none" ELSE kind)]
              ELSE /\ calls' = [calls EXCEPT ![c].i = call.i + 1]
                   /\ UNCHANGED clients
    /\ UNCHANGED <<manager, env, pc, httpServer, log, closing>>

\* Mutant: the failure of ROLLBACK is not caught: it becomes the outcome of
\* query() and the client is not released.
RollbackUncaught(c, succeeds) ==
    /\ Up
    /\ calls[c].pc = "rollback"
    /\ LET call == calls[c] IN
          /\ stmt' = [call |-> c, client |-> call.client, kind |-> "ROLLBACK",
                      txn |-> clients[call.client].txn]
          /\ clients' = [clients EXCEPT ![call.client] =
                           [held |-> ~succeeds,
                            txn |-> IF succeeds THEN "none"
                                    ELSE clients[call.client].txn]]
          /\ calls' = [calls EXCEPT ![c] =
                         Returned([call EXCEPT !.rollbacks = call.rollbacks + 1,
                                               !.releases = call.releases
                                                  + (IF succeeds THEN 1 ELSE 0)],
                                  IF succeeds THEN call.error ELSE "ROLLBACK")]
    /\ UNCHANGED <<manager, env, pc, httpServer, log, closing>>

\* The finally block of query() (lines 84-89): ROLLBACK is sent and
\* awaited, its failure is caught and logged, the client is released, and
\* query() returns the rows or throws the error of its try block.
Rollback(c, succeeds) ==
    /\ Up
    /\ calls[c].pc = "rollback"
    /\ LET call == calls[c] IN
          /\ stmt' = [call |-> c, client |-> call.client, kind |-> "ROLLBACK",
                      txn |-> clients[call.client].txn]
          /\ clients' = [clients EXCEPT ![call.client] =
                           [held |-> FALSE,
                            txn |-> IF succeeds THEN "none"
                                    ELSE clients[call.client].txn]]
          /\ calls' = [calls EXCEPT ![c] =
                         Returned([call EXCEPT !.rollbacks = call.rollbacks + 1,
                                               !.releases = call.releases + 1],
                                  call.error)]
    /\ UNCHANGED <<manager, env, pc, httpServer, log, closing>>

\* The MCP server over stdio (main, lines 54-57): no manager is constructed
\* and the variables of the HTTP transport are unset.
InitTools ==
    /\ env \in {e \in DefaultEnvironments :
                  /\ e.TRANSPORT_MODE = "stdio" /\ ~e.STATELESS_MODE
                  /\ ~e.ENABLE_AUTH /\ e.API_TOKEN = <<>>}
    /\ options = NoOptions
    /\ transports = [s \in 1 .. MaxRequests |-> 0]
    /\ tr = [t \in TransportIds |-> NoTransport]
    /\ ntr = 0
    /\ nextSid = 0
    /\ engine = 0
    /\ inflight = [k \in Slots |-> IdleSlot]
    /\ nreq = 0
    /\ resp = NoResponse
    /\ pc = "stdio"
    /\ httpServer = "none"
    /\ log = <<>>
    /\ closing = {}
    /\ NoCalls

NextTools ==
    \/ \E n \in ToolNames : Handle("CallTool", n)
    \/ \E n \in ResourceNames : Handle("ReadResource", n)
    \/ Handle("ListResources", "")
    \/ \E c \in CallIds, b \in BOOLEAN : PoolConnect(c, b)
    \/ \E c \in CallIds, b \in BOOLEAN : ClientQuery(c, b)
    \/ \E c \in CallIds, b \in BOOLEAN : Rollback(c, b)

SpecTools == InitTools /\ [][NextTools]_vars

----------------------------------------------------------------------------
(* Specification *)

Next ==
    \/ \E m \in Methods, p \in Paths, a \in AuthInputs(AuthInstalled) :
          Denied(m, p, a)
    \/ \E p \in Paths, a \in AuthInputs(AuthInstalled) : Preflight(p, a)
    \/ \E m \in Methods, p \in Paths, a \in AuthInputs(AuthInstalled) :
          NotRouted(m, p, a)
    \/ \E p \in Paths, a \in AuthInputs(AuthInstalled) : Probe(p, a)
    \/ \E p \in EndpointPaths, a \in AuthInputs(AuthInstalled),
          s \in SidHeaders, i \in BOOLEAN : Post(p, a, s, i)
    \/ \E k \in Slots : AfterConnect(k)
    \/ \E k \in Slots : EngineRespond(k)
    \/ \E k \in Slots : ResponseLost(k)
    \/ \E k \in Slots, h \in BOOLEAN : PostThrows(k, h)
    \/ \E p \in EndpointPaths, a \in AuthInputs(AuthInstalled), s \in SidHeaders :
          Get(p, a, s)
    \/ \E t \in TransportIds : ConnectionClosed(t)
    \/ \E p \in EndpointPaths, a \in AuthInputs(AuthInstalled), s \in SidHeaders :
          Delete(p, a, s)

Spec == Init /\ [][Next]_vars

\* The process from the start of main to its exit
NextProcess ==
    \/ Main
    \/ Next
    \/ Signal
    \/ ShutdownResume
    \/ Exit

SpecProcess == InitProcess /\ [][NextProcess]_vars

\* onsessioninitialized applied to any session id: the callback stores
\* whatever id the transport hands it (lines 283-286), so it is exercised
\* here with every id of the id space, ids in use included.
AfterConnectAnyId(k) ==
    /\ Running
    /\ inflight[k].pc = "connect"
    /\ \E id \in 1 .. MaxRequests :
          DispatchWithId(k, inflight[k].n, inflight[k].transport,
                         inflight[k].isInit, tr, id)
    /\ UNCHANGED <<options, ntr, engine, nreq, resp, process>>

NextRegister ==
    \/ Next
    \/ \E k \in Slots : AfterConnectAnyId(k)

SpecRegister == Init /\ [][NextRegister]_vars

\* The handlers of a manager in stateful mode (the gate and the CORS
\* middleware are passed), its shutdown handler, and transports that report
\* close of their own accord
InitClose ==
    Constructed({e \in DefaultEnvironments :
                    ~e.STATELESS_MODE /\ ~e.ENABLE_AUTH /\ e.API_TOKEN = <<>>})

NextClose ==
    \/ \E s \in SidHeaders, i \in BOOLEAN : HandlePost(s, i)
    \/ \E k \in Slots : AfterConnect(k)
    \/ \E k \in Slots : EngineRespond(k)
    \/ \E k \in Slots : ResponseLost(k)
    \/ \E k \in Slots, h \in BOOLEAN : PostThrows(k, h)
    \/ \E s \in SidHeaders : HandleGet(s)
    \/ \E t \in TransportIds : ConnectionClosed(t)
    \/ \E s \in SidHeaders : HandleDelete(s)
    \/ Signal
    \/ ShutdownResume
    \/ Exit
    \/ \E t \in TransportIds : TransportCloses(t)

SpecClose == InitClose /\ [][NextClose]_vars

\* The handlers of a manager in stateful mode, and its close()
NextManagerClose ==
    \/ \E s \in SidHeaders, i \in BOOLEAN : HandlePost(s, i)
    \/ \E k \in Slots : AfterConnect(k)
    \/ \E k \in Slots : EngineRespond(k)
    \/ \E k \in Slots : ResponseLost(k)
    \/ \E k \in Slots, h \in BOOLEAN : PostThrows(k, h)
    \/ \E s \in SidHeaders : HandleGet(s)
    \/ \E t \in TransportIds : ConnectionClosed(t)
    \/ \E s \in SidHeaders : HandleDelete(s)
    \/ Close
    \/ CloseResume
    \/ CloseResolved

SpecManagerClose == InitClose /\ [][NextManagerClose]_vars

\* The manager constructed with resumability on or off
InitResumable == Constructed(Environments)

SpecResumable == InitResumable /\ [][Next]_vars

----------------------------------------------------------------------------
(* Properties of a request *)

\* The router runs the handler registered for (method, path).
Routed(method, path) ==
    \/ /\ Route(method, path) = "handlePost"
       /\ \E s \in SidHeaders, i \in BOOLEAN : HandlePost(s, i)
    \/ /\ Route(method, path) = "handleGet"
       /\ \E s \in SidHeaders : HandleGet(s)
    \/ /\ Route(method, path) = "handleDelete"
       /\ \E s \in SidHeaders : HandleDelete(s)

\* The Express application receives a request: the auth middleware (when
\* installed), the CORS middleware, then the router.
Request(method, path, auth) ==
    IF Gate(path, method, auth) # "next" THEN Denied(method, path, auth)
    ELSE IF CorsEnds(method) THEN Preflight(path, auth)
    ELSE IF Route(method, path) = "none" THEN NotRouted(method, path, auth)
    ELSE IF Route(method, path) \in {"health", "ready"} THEN Probe(path, auth)
    ELSE Routed(method, path)

\* The session ids in the registry
RegisteredIds == RegisteredIdsOf(transports)

\* The step hands a request to transport t: a handler becomes suspended in
\* t.handleRequest, or t itself answers the request at once.
HandedTo(t) ==
    \/ \E k \in Slots : /\ inflight[k].pc = "idle"
                        /\ inflight'[k].pc = "engine"
                        /\ inflight'[k].transport = t
                        /\ inflight'[k].n = nreq'
    \/ resp'.n = nreq' /\ resp'.transport = t

\* The step hands a request to transport t: t.handleRequest is called, by
\* a handler that has just received the request or by one that resumes
\* (lines 187, 234 and 262).
HandOff(t) ==
    \/ \E k \in Slots : /\ inflight[k].pc # "engine"
                        /\ inflight'[k].pc = "engine"
                        /\ inflight'[k].transport = t
    \/ nreq' # nreq /\ resp'.n = nreq' /\ resp'.transport = t

----------------------------------------------------------------------------
(* Claims *)

\* C1: in stateful mode a POST with an initialization body and no session id
\* creates exactly one transport and, when its handler resumes, registers
\* exactly one fresh session id for that transport (the registry grows by
\* one entry); the response to it carries that id; a later POST carrying a
\* registered id is handed to the transport registered under it and creates
\* no transport and no session.
C1_InitCreatesOneSession ==
    [][~options.enableStatelessMode =>
        /\ \A s \in {-1, 0} :
             HandlePost(s, TRUE) =>
                /\ ntr' = ntr + 1
                /\ tr'[ntr'].kind = "stateful"
                /\ \A t \in 1 .. ntr : tr'[t] = tr[t]
                /\ transports' = transports
                /\ \E k \in Slots : /\ inflight[k].pc = "idle"
                                    /\ inflight'[k].pc = "connect"
                                    /\ inflight'[k].transport = ntr'
        /\ \A s \in RegisteredIds, i \in BOOLEAN :
             HandlePost(s, i) =>
                /\ HandedTo(transports[s])
                /\ ntr' = ntr /\ nextSid' = nextSid
                /\ transports' = transports
        /\ \A k \in Slots :
             AfterConnect(k) =>
                \E id \in 1 .. MaxRequests :
                   /\ id \notin RegisteredIds
                   /\ \A t \in 1 .. ntr : tr[t].sessionId # id
                   /\ transports' = [transports EXCEPT ![id] = inflight[k].transport]
                   /\ tr'[inflight[k].transport].sessionId = id
                   /\ Cardinality(RegisteredIds') = Cardinality(RegisteredIds) + 1
                   /\ ntr' = ntr
        /\ \A k \in Slots :
             EngineRespond(k) /\ inflight[k].isInit =>
                /\ resp'.n = inflight[k].n
                /\ resp'.sessionId > 0
                /\ transports[resp'.sessionId] = inflight[k].transport
    ]_vars

\* C1 witness: a session was created and its id returned, and a later POST
\* carrying that id is in the hands of the transport registered under it.
C1_Witness ==
    /\ ~options.enableStatelessMode
    /\ resp.status = 200 /\ resp.sessionId > 0 /\ resp.body = "jsonrpc"
    /\ transports[resp.sessionId] = resp.transport
    /\ \E k \in Slots : /\ inflight[k].pc = "engine"
                        /\ ~inflight[k].isInit
                        /\ inflight[k].n > resp.n
                        /\ inflight[k].transport = resp.transport
    /\ ntr = 1

\* The state a rejected request must leave alone: the registry, the
\* transports, the Server's connection and the suspended handlers.
Untouched ==
    UNCHANGED <<transports, tr, ntr, nextSid, engine, inflight>>

\* The response of handlePost's bad-request branch
BadRequestResponse ==
    Response(nreq', 400, -32000, "jsonrpc",
             "Bad Request: Missing or invalid session ID", 0, 0)

\* C2: in stateful mode a POST that is not an initialization and carries no
\* session id, and a POST carrying a session id that is not registered, are
\* answered with the same response, HTTP 400 with JSON-RPC code -32000, and
\* are handed to no transport.
C2_BadSessionRejected ==
    [][~options.enableStatelessMode =>
        \A s \in SidHeaders, i \in BOOLEAN :
           /\ HandlePost(s, i)
           /\ (s <= 0 /\ ~i) \/ (s > 0 /\ s \notin RegisteredIds)
           => resp' = BadRequestResponse /\ inflight' = inflight /\ tr' = tr
    ]_vars

\* C2 witness: with a session registered, a POST was answered by the
\* manager with 400 and code -32000.
C2_Witness ==
    /\ ~options.enableStatelessMode
    /\ RegisteredIds # {}
    /\ resp.n = nreq /\ resp.status = 400 /\ resp.code = -32000
    /\ resp.body = "jsonrpc" /\ resp.transport = 0

\* C3: a request rejected as a bad request (a stateful POST that is neither
\* for a registered session nor an initialization without session id; a GET
\* or DELETE whose session id is absent or not registered) is answered 400
\* and leaves the registry unchanged, creates no transport and connects
\* nothing to the Server.
C3_RejectedLeavesStateAlone ==
    [][/\ ~options.enableStatelessMode =>
           \A s \in SidHeaders, i \in BOOLEAN :
              /\ HandlePost(s, i)
              /\ s \notin RegisteredIds
              /\ ~(s <= 0 /\ i)
              => resp'.n = nreq' /\ resp'.status = 400 /\ Untouched
       /\ \A s \in SidHeaders :
              /\ HandleGet(s) \/ HandleDelete(s)
              /\ s \notin RegisteredIds
              => resp'.n = nreq' /\ resp'.status = 400 /\ Untouched
    ]_vars

\* C3 witness: while a session is registered and a handler is suspended, a
\* GET or DELETE was rejected with the plain-text 400.
C3_Witness ==
    /\ RegisteredIds # {}
    /\ \E k \in Slots : inflight[k].pc # "idle"
    /\ resp.n = nreq /\ resp.status = 400 /\ resp.body = "text"

\* C4: in stateful mode a POST with an initialization body and a non-empty
\* session id header is handed to the registered transport when the id is
\* registered and is rejected as a bad request when it is not; in neither
\* case is a transport created or a session registered.
C4_InitWithHeaderCreatesNothing ==
    [][~options.enableStatelessMode =>
        \A s \in 1 .. MaxRequests :
           HandlePost(s, TRUE) =>
              /\ IF s \in RegisteredIds
                 THEN HandedTo(transports[s])
                 ELSE resp' = BadRequestResponse /\ inflight' = inflight
              /\ ntr' = ntr /\ nextSid' = nextSid
              /\ transports' = transports /\ tr' = tr
    ]_vars

\* C4 witness: the registered transport was handed an initialization that
\* carried its session id (it refuses to initialize twice), and there is
\* still one transport and one session.
C4_Witness ==
    /\ ~options.enableStatelessMode
    /\ resp.n = nreq /\ resp.status = 400 /\ resp.code = -32600
    /\ resp.transport # 0
    /\ ntr = 1 /\ nextSid = 1 /\ RegisteredIds = {1}

\* The ids of sessions whose transport was closed
ClosedIds == {tr[t].sessionId : t \in {u \in 1 .. ntr : tr[u].closed}} \ {0}

\* C5: a DELETE carrying a registered session id closes the transport bound
\* to it and removes the id from the registry; every later POST, GET or
\* DELETE carrying that id is answered 400 by the manager and changes
\* nothing.
C5_DeleteRemovesSession ==
    [][/\ \A s \in RegisteredIds :
              HandleDelete(s) =>
                 /\ tr'[transports[s]].closed
                 /\ transports'[s] = 0
                 /\ resp'.n = nreq' /\ resp'.status = 200
       /\ \A s \in ClosedIds :
              \/ \E i \in BOOLEAN : HandlePost(s, i)
              \/ HandleGet(s)
              \/ HandleDelete(s)
              => /\ resp'.n = nreq' /\ resp'.status = 400 /\ resp'.transport = 0
                 /\ Untouched
    ]_vars

\* C5 witness: the only session was deleted and a request received after
\* that was answered 400 by the manager.
C5_Witness ==
    /\ ntr = 1 /\ tr[1].closed /\ ClosedIds = {1} /\ RegisteredIds = {}
    /\ resp.n = nreq /\ resp.status = 400 /\ resp.transport = 0

\* C6: in stateless mode the registry is empty in every reachable state, no
\* session id is generated, set on a transport or returned, no stream is
\* opened for a session, and no two suspended handlers share a transport.
C6_StatelessRegistryEmpty ==
    options.enableStatelessMode =>
        /\ RegisteredIds = {}
        /\ nextSid = 0
        /\ resp.sessionId = 0
        /\ \A t \in TransportIds : tr[t].sessionId = 0 /\ ~tr[t].stream
        /\ \A k, j \in Slots :
              k # j /\ inflight[k].pc # "idle" /\ inflight[j].pc # "idle"
              => inflight[k].transport # inflight[j].transport

\* C6 witness: in stateless mode two POSTs were handled by two transports
\* and the second one was answered.
C6_Witness ==
    /\ options.enableStatelessMode
    /\ ntr = 2
    /\ resp.n = 2 /\ resp.status = 200

\* The transports no suspended handler holds: their request has been handled.
Served ==
    {t \in 1 .. ntr : \A k \in Slots : inflight[k].pc = "idle" \/ inflight[k].transport # t}

\* C7: in stateless mode a transport whose request has been handled is
\* closed and is no longer the transport the Server is connected to.
C7_StatelessTransportDiscarded ==
    options.enableStatelessMode =>
        \A t \in Served : tr[t].closed /\ engine # t

\* C8: a request handed to a live transport is answered through that
\* transport, whatever other transports were connected to the Server in the
\* meantime: the Server's answer to a dispatched request goes to the
\* transport the request came in on.
C8_ConnectLeavesOthersBound ==
    \A k \in Slots :
       inflight[k].pc = "engine" /\ ~tr[inflight[k].transport].closed
       => inflight[k].capture = inflight[k].transport

\* The paths the auth middleware protects (auth.ts lines 16-28 exempt the
\* others) and the methods it protects them for.
ProtectedPaths ==
    {p \in Paths : /\ p \notin {<<"health">>, <<"ready">>, <<"register">>}
                   /\ ~StartsWithWellKnown(p)}
ProtectedMethods == Methods \ {"OPTIONS"}

\* The header "Bearer T" for the configured token T
BearerToken == <<"Bearer", "sp">> \o options.apiToken

\* The step answers the request just received with 401 and touches nothing.
Unauthorized ==
    /\ resp'.n = nreq' /\ resp'.status = 401 /\ resp'.transport = 0
    /\ Untouched

\* C9: with the auth middleware installed with token T, a request to a
\* protected path with header `Bearer T` is never answered 401: it goes on
\* to the CORS middleware and the router; a request to such a path without
\* the header or with `Bearer X`, X different from T, is answered 401 and
\* changes no state of the manager, the transports or the Server.
C9_BearerTokenGate ==
    [][AuthInstalled /\ nreq' # nreq =>
        \A m \in ProtectedMethods, p \in ProtectedPaths :
           /\ resp'.n = nreq' /\ resp'.status = 401
              => ~Request(m, p, BearerToken)
           /\ \A a \in AuthHeaders :
                 /\ \/ a = <<>>
                    \/ /\ Len(a) > 2 /\ a[1] = "Bearer" /\ a[2] = "sp"
                       /\ SubSeq(a, 3, Len(a)) # options.apiToken
                 /\ Request(m, p, a)
                 => Unauthorized
    ]_vars

\* C9 witness: with the auth middleware installed, one request got past it
\* to a transport and a later one was answered 401.
C9_Witness ==
    /\ AuthInstalled
    /\ resp.n = nreq /\ resp.status = 401
    /\ \E k \in Slots : inflight[k].pc = "engine" /\ inflight[k].n < resp.n

\* The header has the form `Bearer <token>`, the scheme in any letter case,
\* with the configured token.
WellFormedBearer(a) ==
    /\ Len(a) > 2 /\ a[1] \in BearerWords /\ a[2] = "sp"
    /\ DropSpaces(Tail(a)) = options.apiToken

\* C10: with the auth middleware installed, a request to a protected path
\* gets past it only with a header of the form `Bearer <token>` carrying the
\* configured token; without the header it is answered 401 "Missing
\* Authorization header", and with any other header value, one without the
\* Bearer prefix included, 401 "Invalid authorization token".
C10_OnlyBearerFormAllowed ==
    [][AuthInstalled =>
        \A m \in ProtectedMethods, p \in ProtectedPaths, a \in AuthHeaders :
           Request(m, p, a) =>
              IF a = <<>>
              THEN Unauthorized /\ resp'.message = MissingHeader.message
              ELSE IF WellFormedBearer(a)
              THEN ~(resp'.n = nreq' /\ resp'.status = 401)
              ELSE Unauthorized /\ resp'.message = InvalidToken.message
    ]_vars

\* The probe paths
ProbePaths == { <<"health">>, <<"ready">> }

\* C11: a GET of /health or /ready is answered 200 by its route, whether or
\* not the auth middleware is installed, whatever the Authorization header
\* is, in stateful and in stateless mode, and changes nothing.
C11_ProbesAlwaysAnswered ==
    [][\A p \in ProbePaths, a \in AuthHeaders :
          Request("GET", p, a) =>
             /\ resp'.n = nreq' /\ resp'.status = 200
             /\ resp'.body = p[1]
             /\ Untouched
    ]_vars

\* C11 witness: with the auth middleware installed and a POST suspended in
\* a transport, a probe was answered 200.
C11_Witness ==
    /\ AuthInstalled
    /\ \E k \in Slots : inflight[k].pc = "engine"
    /\ resp.n = nreq /\ resp.status = 200 /\ resp.body \in {"health", "ready"}

\* The discovery paths the auth middleware exempts (auth.ts lines 25-28)
DiscoveryPaths == {p \in Paths : StartsWithWellKnown(p) \/ p = <<"register">>}

\* The step answers the request just received with 404 and touches nothing.
NotFound ==
    /\ resp'.n = nreq' /\ resp'.status = 404 /\ resp'.transport = 0
    /\ Untouched

\* C12 as stated: with the auth middleware installed, a request to a
\* discovery path, whatever its credentials, is answered 404, for every
\* method (the router has a handler for none of them on these paths).
C12_DiscoveryNotFoundAnyMethod ==
    [][AuthInstalled =>
        \A m \in Methods, p \in DiscoveryPaths, a \in AuthHeaders :
           Request(m, p, a) => NotFound
    ]_vars

\* C12 amended: with the auth middleware installed, a request to a
\* discovery path with a method other than OPTIONS, whatever its
\* credentials, is never answered 401 but 404; an OPTIONS request to such a
\* path is answered 204 by the CORS middleware.
C12_DiscoveryNotFound ==
    [][AuthInstalled =>
        \A p \in DiscoveryPaths, a \in AuthHeaders :
           /\ \A m \in Methods \ {"OPTIONS"} : Request(m, p, a) => NotFound
           /\ Request("OPTIONS", p, a) =>
                 resp'.n = nreq' /\ resp'.status = 204 /\ Untouched
    ]_vars

\* C12 witness: with the auth middleware installed and a session
\* registered, a request to /register was answered 404.
C12_Witness ==
    /\ AuthInstalled
    /\ RegisteredIds # {}
    /\ resp.n = nreq /\ resp.status = 404 /\ resp.message = "register"

\* C13: a process started with ENABLE_AUTH=true listens only with the auth
\* middleware installed with exactly API_TOKEN; with API_TOKEN unset or
\* empty it never constructs the manager, never listens and handles no
\* request: it exits with status 1.
C13_AuthEnabledNeverOpen ==
    /\ env.ENABLE_AUTH /\ httpServer # "none"
       => /\ AuthInstalled
          /\ options.apiToken = env.API_TOKEN
          /\ env.API_TOKEN # <<>>
    /\ env.ENABLE_AUTH /\ env.API_TOKEN = <<>>
       => /\ pc \in {"main", "exited"}
          /\ httpServer = "none" /\ options = NoOptions
          /\ nreq = 0 /\ ntr = 0
          /\ pc = "exited" => log = <<"exit(1)">>

\* C13 witness: a process started with ENABLE_AUTH=true and a token is
\* listening and has answered a request 401.
C13_Witness ==
    /\ env.ENABLE_AUTH /\ httpServer = "listening"
    /\ resp.n = nreq /\ resp.status = 401

\* C14: every rejection the manager or the auth middleware writes (401,
\* 400, 500) has a JSON-RPC error body, with code -32000 for 401 and 400
\* and -32603 for 500.
C14_RejectionsAreJsonRpc ==
    resp.transport = 0 /\ resp.status \in {400, 401, 500}
    => /\ resp.body = "jsonrpc"
       /\ resp.code = IF resp.status = 500 THEN -32603 ELSE -32000

\* C15: a GET or DELETE is handed to a transport only when its session id
\* is registered, and then to the transport registered under it; with an
\* absent, empty or unregistered id it is answered 400 by the manager and no
\* transport sees it, in stateful and in stateless mode.
C15_StreamAndDeleteNeedSession ==
    [][\A s \in SidHeaders :
          HandleGet(s) \/ HandleDelete(s) =>
             IF s \in RegisteredIds
             THEN resp'.n = nreq' /\ resp'.transport = transports[s]
             ELSE /\ resp'.n = nreq' /\ resp'.status = 400 /\ resp'.transport = 0
                  /\ tr' = tr /\ transports' = transports
    ]_vars

\* C15 witness: in stateless mode, with a transport alive, a GET or DELETE
\* was answered 400 by the manager.
C15_Witness ==
    /\ options.enableStatelessMode
    /\ ntr > 0
    /\ resp.n = nreq /\ resp.status = 400 /\ resp.body = "text"

\* C16: when the connection of a session's SSE stream closes, the registry
\* is unchanged and the transport stays open and bound to its session id,
\* so that a later request with that id still reaches it.
C16_StreamCloseKeepsSession ==
    [][\A t \in TransportIds :
          ConnectionClosed(t) =>
             /\ transports' = transports
             /\ tr'[t].closed = tr[t].closed
             /\ tr'[t].sessionId = tr[t].sessionId
             /\ \A s \in RegisteredIds : transports[s] = t => Has(s)'
    ]_vars

\* C16 witness: a session's stream was opened by request 2 and its
\* connection closed; request 3, a POST with the same session id, is in the
\* hands of the same transport.
C16_Witness ==
    /\ resp.n = 2 /\ resp.status = 200 /\ resp.body = "sse"
    /\ ~tr[resp.transport].stream /\ ~tr[resp.transport].closed
    /\ transports[resp.sessionId] = resp.transport
    /\ \E k \in Slots : /\ inflight[k].pc = "engine" /\ inflight[k].n = 3
                        /\ inflight[k].transport = resp.transport

\* The transports that are alive: constructed and not closed
Live(trs) == {t \in TransportIds : trs[t].kind # "none" /\ ~trs[t].closed}

C18_RegistryLifecycle ==
    [][\A s \in 1 .. MaxRequests :
          /\ s \in RegisteredIds /\ transports'[s] # transports[s]
             => /\ transports'[s] = 0
                /\ HandleDelete(s) \/ Signal \/ ShutdownResume
          /\ s \notin RegisteredIds /\ transports'[s] # 0
             => /\ ~options.enableStatelessMode
                /\ \E k \in Slots :
                      /\ AfterConnect(k)
                      /\ inflight[k].isInit
                      /\ tr[inflight[k].transport].kind = "stateful"
                      /\ transports'[s] = inflight[k].transport
    ]_vars

\* C18 witness: the session created by the first request is still bound to
\* its transport after a further POST and a GET that opened its stream.
C18_Witness ==
    /\ pc = "serving"
    /\ nreq = 3 /\ ntr = 1
    /\ RegisteredIds = {1} /\ transports[1] = 1
    /\ resp.n = 3 /\ resp.body = "sse" /\ resp.transport = 1
    /\ \E k \in Slots : inflight[k].n = 2 /\ inflight[k].transport = 1

\* C19: once the shutdown handler has run (registry cleared, listener
\* closed), the registry is empty and stays empty and no request is handed
\* to a transport any more.
C19_NothingAfterShutdown ==
    [][(pc = "draining" \/ pc = "exited") =>
          /\ RegisteredIds = {}
          /\ RegisteredIds' = {}
          /\ ntr' = ntr
          /\ \A k \in Slots :
                (inflight'[k].pc = "engine") => (inflight[k].pc = "engine")
    ]_vars

\* The place of a step in the order the shutdown is to follow
Rank(step) ==
    IF step \in {"closeTransport", "errorClosing"} THEN 1
    ELSE IF step = "clear" THEN 2
    ELSE IF step = "closeListener" THEN 3
    ELSE 4

\* C20: on a shutdown signal the server first stops accepting connections,
\* then asks the registered transports to close, then clears the registry,
\* then closes the listener, then exits: every step taken comes in that
\* order, and once a transport has been asked to close or the registry has
\* been cleared the server no longer accepts connections.
C20_ShutdownOrder ==
    /\ \A i, j \in 1 .. Len(log) : i < j => Rank(log[i]) <= Rank(log[j])
    /\ (\E i \in 1 .. Len(log) : log[i] \in {"closeTransport", "clear"})
       => httpServer # "listening"

\* The shutdown handler has caught an error closing a transport.
ErrorLogged(l) == \E i \in 1 .. Len(l) : l[i] = "errorClosing"

\* C21: during the shutdown the signal starts, an error closing one
\* session's transport does not end the handler: the step that catches it
\* leaves the handler in its loop, and the handler ends only by clearing
\* the registry and closing the listener, when every transport still
\* registered has been asked to close.
C21_CloseFailureDoesNotAbort ==
    [][/\ ErrorLogged(log') /\ ~ErrorLogged(log) => pc' = "shutdown"
       /\ pc = "shutdown" => pc' \in {"shutdown", "draining"}
       /\ pc \in {"serving", "shutdown"} /\ pc' = "draining"
          => /\ \A s \in RegisteredIds : transports[s] \in closing
             /\ RegisteredIds' = {}
             /\ httpServer' = "closed"
             /\ log' = log \o <<"clear", "closeListener">>
    ]_vars

\* C21 witness: closing the first of two sessions' transports threw, the
\* second was asked to close all the same, and the handler has cleared the
\* registry and closed the listener.
C21_Witness ==
    /\ pc = "draining"
    /\ Len(log) >= 2 /\ log[2] = "errorClosing"
    /\ Cardinality(closing) = 2
    /\ RegisteredIds = {} /\ httpServer = "closed"

\* The process as Node schedules it: main runs, a handler whose await has
\* settled resumes, the Server answers a message it was handed,
\* transport.close() settles, and the callback of httpServer.close runs
\* when no connection is left.  Nothing obliges a client to send a request
\* or to close a connection.
SpecShutdown ==
    /\ SpecProcess
    /\ WF_vars(Main)
    /\ WF_vars(\E k \in Slots : AfterConnect(k))
    /\ WF_vars(\E k \in Slots : EngineRespond(k))
    /\ WF_vars(\E k \in Slots : ResponseLost(k))
    /\ WF_vars(ShutdownResume)
    /\ WF_vars(Exit)

\* C22: after a shutdown signal the process eventually exits, whether or
\* not the connections still open are ever closed.
C22_EventuallyExits ==
    (pc = "shutdown" \/ pc = "draining") ~> (pc = "exited")

\* The transports that were given an event store
WithStore == {t \in 1 .. ntr : tr[t].eventStore # 0}

\* C24: a transport has an event store exactly when it is a stateful
\* transport of a manager with resumability enabled; no two transports
\* share a store; a stateful transport without resumability and a stateless
\* transport with or without it have none.
C24_StorePerResumableSession ==
    /\ \A t \in 1 .. ntr :
          t \in WithStore <=> tr[t].kind = "stateful" /\ options.enableResumability
    /\ \A t, u \in WithStore : t # u => tr[t].eventStore # tr[u].eventStore
    /\ options.enableStatelessMode => WithStore = {}

\* C24 witness: with resumability enabled two sessions are registered and
\* their transports have two different stores.
C24_Witness ==
    /\ options.enableResumability /\ ~options.enableStatelessMode
    /\ Cardinality(RegisteredIds) = 2
    /\ \A s \in RegisteredIds : transports[s] \in WithStore
    /\ Cardinality({tr[t].eventStore : t \in WithStore}) = 2

\* C25: an error thrown while a POST is handled (creating or connecting
\* the transport, or in the transport's handleRequest) is caught by
\* handlePost: when no response has been started the request is answered
\* 500 with JSON-RPC code -32603; when the transport has started the
\* response nothing is written over it; either way the process keeps
\* running, the listener stays as it is, and the registry, the transports
\* and the other suspended handlers are untouched.
C25_PostFaultCaught ==
    [][\A k \in Slots :
          /\ PostThrows(k, FALSE) =>
                resp' = Response(inflight[k].n, 500, -32603, "jsonrpc",
                                 "Internal server error", 0, 0)
          /\ PostThrows(k, TRUE) =>
                /\ resp'.n = inflight[k].n
                /\ resp'.status # 500
                /\ resp'.transport = inflight[k].transport
          /\ PostThrows(k, FALSE) \/ PostThrows(k, TRUE) =>
                /\ Running' /\ pc' = pc /\ httpServer' = httpServer
                /\ transports' = transports /\ tr' = tr /\ engine' = engine
                /\ \A j \in Slots \ {k} : inflight'[j] = inflight[j]
    ]_vars

\* C25 witness: a POST was answered 500 with code -32603, and a request
\* received after it is in the hands of a transport.
C25_Witness ==
    /\ resp.status = 500 /\ resp.code = -32603 /\ resp.body = "jsonrpc"
    /\ \E k \in Slots : inflight[k].pc = "engine" /\ inflight[k].n > resp.n

\* The tools/call requests a handler has returned from or thrown out of
DoneToolCalls == {c \in CallIds : calls[c].handler = "CallTool" /\ calls[c].pc = "done"}

\* C26: a tools/call request whose data-access operation failed (the pool
\* gave no client, or a statement failed) ends with the handler returning
\* an isError result, as does one naming no known tool; the handler never
\* throws; and the step in which a call ends leaves every other call as it
\* was.
C26_ToolFaultIsResult ==
    [][/\ \A c \in DoneToolCalls' :
             /\ calls'[c].result \in {"content", "isError"}
             /\ calls'[c].error # "none" <=> calls'[c].result = "isError"
             /\ calls'[c].name \notin {"query", "describe_table", "find_column"}
                => calls'[c].result = "isError"
       /\ \A c \in CallIds :
             calls[c].pc \notin {"idle", "done"} /\ calls'[c].pc = "done"
             => \A d \in CallIds \ {c} : calls'[d] = calls[d]
    ]_vars

\* C26 witness: a statement of one tools/call request failed and the call
\* returned an isError result, and another tools/call request, under way at
\* the time or later, returned its content.
C26_Witness ==
    \E c, d \in DoneToolCalls :
       /\ calls[c].error \in StatementKinds /\ calls[c].result = "isError"
       /\ calls[d].result = "content"

\* C27: with CORS enabled, an OPTIONS request to any path, with any
\* Authorization header or none, with the auth middleware installed or not,
\* is answered 204 with the Access-Control-Allow headers by the CORS
\* middleware; no handler and no transport sees it and nothing changes.
C27_PreflightAnswered ==
    [][options.enableCors /\ nreq' # nreq =>
          IF resp'.n = nreq' /\ resp'.status = 204
          THEN resp'.cors /\ resp'.body = "none" /\ resp'.transport = 0 /\ Untouched
          ELSE \A p \in Paths, a \in AuthHeaders : ~Request("OPTIONS", p, a)
    ]_vars

\* C27 witness: with the auth middleware installed and a POST in the hands
\* of a transport, a request was answered 204 with the CORS headers.
C27_Witness ==
    /\ AuthInstalled
    /\ \E k \in Slots : inflight[k].pc = "engine"
    /\ resp.n = nreq /\ resp.status = 204 /\ resp.cors

\* C28: every statement sent to the database for a tool or resource
\* request, the transaction control statements apart, is sent on a client
\* on which a transaction opened with BEGIN TRANSACTION READ ONLY is open.
C28_AllStatementsReadOnly ==
    stmt.kind \notin {"none", "BEGIN", "ROLLBACK"} => stmt.txn = "readonly"

\* C29: the response of GET /health, whatever the Authorization header,
\* reports the mode the manager was configured with and, as activeSessions,
\* the number of entries of the registry when the request is handled; in
\* stateless mode that number is 0.
C29_HealthReportsRegistry ==
    [][\A a \in AuthHeaders :
          Request("GET", <<"health">>, a) =>
             /\ resp'.n = nreq' /\ resp'.status = 200
             /\ resp'.json.status = "ok"
             /\ resp'.json.mode = IF env.STATELESS_MODE THEN "stateless" ELSE "stateful"
             /\ resp'.json.activeSessions = Cardinality(RegisteredIds)
             /\ options.enableStatelessMode => resp'.json.activeSessions = 0
    ]_vars

\* C29 witness: two sessions were created and /health, asked after that,
\* reported the stateful mode and two active sessions.
C29_Witness ==
    /\ ntr = 2
    /\ resp.n = nreq /\ resp.body = "health"
    /\ resp.json.mode = "stateful" /\ resp.json.activeSessions = 2
    /\ Cardinality(RegisteredIds) = 2

\* The suspended handlers of initialization POSTs without session id
InitSlots ==
    {k \in Slots : inflight[k].pc \in {"connect", "engine"} /\ inflight[k].isInit}

\* C30: in stateful mode, when the handling of two initialization POSTs
\* without session id overlaps, each handler has a transport of its own;
\* the handler that resumes registers an id that is not registered and that
\* no other transport has, under its own transport, and changes no other
\* entry; and every transport that has been given an id stays registered
\* under it, with no other transport sharing the id, until it is closed.
C30_ConcurrentInitsDistinct ==
    [][~options.enableStatelessMode =>
         /\ \A k, j \in InitSlots :
               k # j => inflight[k].transport # inflight[j].transport
         /\ \A k \in InitSlots :
               AfterConnect(k) /\ InitSlots # {k} =>
                  \E id \in 1 .. MaxRequests :
                     /\ id \notin RegisteredIds
                     /\ \A t \in 1 .. ntr : tr[t].sessionId # id
                     /\ transports' = [transports EXCEPT ![id] = inflight[k].transport]
                     /\ tr'[inflight[k].transport].sessionId = id
         /\ \A t \in 1 .. ntr' :
               tr'[t].sessionId # 0 =>
                  /\ ~tr'[t].closed => transports'[tr'[t].sessionId] = t
                  /\ \A u \in 1 .. ntr' : u # t => tr'[u].sessionId # tr'[t].sessionId
    ]_vars

\* C30 witness: two initialization POSTs overlapped, the handler of the
\* second resumed first, and both sessions are registered, each under the
\* transport created for it.
C30_Witness ==
    /\ ~options.enableStatelessMode
    /\ \E k, j \in Slots :
          /\ inflight[k].pc = "engine" /\ inflight[k].isInit /\ inflight[k].transport = 1
          /\ inflight[j].pc = "engine" /\ inflight[j].isInit /\ inflight[j].transport = 2
    /\ ntr = 2 /\ RegisteredIds = {1, 2}
    /\ transports[1] = 2 /\ transports[2] = 1
    /\ tr[1].sessionId = 2 /\ tr[2].sessionId = 1

\* C31: in stateful mode a request that carries a session id is handed to
\* a transport only if that transport is the registry's binding for that id
\* when it is handed over; and in every interleaving with DELETE requests,
\* closing transports and the shutdown handler, no request is handed to a
\* transport that has a session id unless the registry binds that id to it
\* at that moment (so never after its session was removed, never once it is
\* closed).
C31_HandOffToBinding ==
    [][\A t \in TransportIds :
          HandOff(t) =>
             /\ tr[t].sessionId # 0 =>
                   transports[tr[t].sessionId] = t /\ ~tr[t].closed
             /\ \A s \in SidHeaders :
                   (/\ s > 0
                    /\ ~options.enableStatelessMode
                    /\ \/ \E i \in BOOLEAN : HandlePost(s, i)
                       \/ HandleGet(s)
                       \/ HandleDelete(s))
                   => transports[s] = t
    ]_vars

\* C31 witness: the shutdown loop has closed one session's transport and is
\* suspended; the latest request, a POST carrying the id of another session,
\* is in the hands of the transport the registry binds to that id.
C31_Witness ==
    /\ pc = "shutdown"
    /\ closing # {}
    /\ \E k \in Slots :
          /\ inflight[k].pc = "engine"
          /\ inflight[k].n = nreq
          /\ ~inflight[k].isInit
          /\ inflight[k].transport \notin closing
          /\ tr[inflight[k].transport].sessionId > 0
          /\ transports[tr[inflight[k].transport].sessionId]
                = inflight[k].transport

\* Transport t reports close in this step: of its own accord, because it
\* was handed a DELETE, or because the shutdown loop called its close(),
\* which returned.
ReportsClose(t) ==
    \/ TransportCloses(t)
    \/ \E s \in RegisteredIds : transports[s] = t /\ HandleDelete(s)
    \/ /\ pc \in {"serving", "shutdown"}
       /\ Remaining # {}
       /\ transports[NextEntry] = t
       /\ ShutdownLoop
       /\ log' = Append(log, "closeTransport")

\* C32: when a transport reports close, the registry entry of that
\* transport's own session id is removed and every other entry is
\* unchanged; when its id is already absent from the registry (it reported
\* close before, was deleted, or shutdown cleared the registry), or when it
\* never obtained a session id, the registry is unchanged.
C32_CloseRemovesOwnEntry ==
    [][\A t \in TransportIds :
          ReportsClose(t) =>
             /\ \A s \in 1 .. MaxRequests :
                   transports'[s] = IF s = tr[t].sessionId THEN 0 ELSE transports[s]
             /\ (tr[t].sessionId = 0 \/ ~Has(tr[t].sessionId))
                   => transports' = transports
    ]_vars

\* C32 witness: with no DELETE received and no shutdown started, the
\* transport of session 1 has reported close and its entry is gone, session
\* 2 is still bound to its transport, and a third transport, which never
\* obtained a session id, has reported close too.
C32_Witness ==
    /\ pc = "serving"
    /\ nreq = 3
    /\ tr[1].sessionId = 1 /\ tr[1].closed /\ transports[1] = 0
    /\ tr[2].sessionId = 2 /\ ~tr[2].closed /\ transports[2] = 2
    /\ tr[3].kind = "stateful" /\ tr[3].sessionId = 0 /\ tr[3].closed

\* C33: when the manager's close() has finished, by returning or by
\* failing, the registry is empty (no transport is left registered, asked
\* to close or not) and the HTTP listener is closed; also when a transport
\* failed to close, and when the transports' close callbacks removed
\* entries during the iteration.
C33_CloseLeavesNothing ==
    pc \in {"closed", "closeFailed"} =>
       /\ RegisteredIds = {}
       /\ httpServer # "listening"

\* Call c is a call of the query tool, which runs RedshiftTools.query.
IsQuery(c) == calls[c].handler = "CallTool" /\ calls[c].name = "query"

\* C34: in every call of query() that obtained a client, whether BEGIN, the
\* user statement or ROLLBACK fail or all succeed: the user statement is sent
\* only when BEGIN TRANSACTION READ ONLY has succeeded on its client and
\* before any ROLLBACK or release; until query() ends nothing is rolled
\* back or released; and when it ends, ROLLBACK has been attempted exactly
\* once, as the last statement, the client has been released exactly once
\* and is free, and the outcome is that of the try block (the rows, or the
\* error of BEGIN or of the user statement), also when ROLLBACK failed.
C34_QueryTransaction ==
    [][\A c \in CallIds :
          IsQuery(c) =>
             /\ (/\ \E b \in BOOLEAN : ClientQuery(c, b)
                 /\ stmt'.kind = "user")
                => /\ calls[c].i = 2
                   /\ calls[c].error = "none"
                   /\ clients[calls[c].client].held
                   /\ clients[calls[c].client].txn = "readonly"
                   /\ calls[c].rollbacks = 0 /\ calls[c].releases = 0
             /\ calls'[c].pc \in {"connect", "stmt", "rollback"}
                => calls'[c].rollbacks = 0 /\ calls'[c].releases = 0
             /\ (calls[c].pc \in {"stmt", "rollback"} /\ calls'[c].pc = "done")
                => /\ stmt'.kind = "ROLLBACK" /\ stmt'.call = c
                   /\ calls'[c].rollbacks = 1 /\ calls'[c].releases = 1
                   /\ ~clients'[calls[c].client].held
                   /\ calls'[c].error = calls[c].error
                   /\ calls'[c].error \in {"none", "BEGIN", "user"}
                   /\ calls'[c].result =
                         IF calls[c].error = "none" THEN "content" ELSE "isError"
    ]_vars

\* C34 witness: a call of query() has ended whose BEGIN succeeded, whose user
\* statement failed and whose ROLLBACK failed (the transaction is still open
\* on the client): one ROLLBACK, one release, the client free, and the
\* outcome the error of the user statement.
C34_Witness ==
    \E c \in CallIds :
       /\ IsQuery(c)
       /\ calls[c].pc = "done"
       /\ calls[c].error = "user" /\ calls[c].result = "isError"
       /\ calls[c].rollbacks = 1 /\ calls[c].releases = 1
       /\ stmt.kind = "ROLLBACK" /\ stmt.call = c
       /\ clients[stmt.client].txn = "readonly"
       /\ ~clients[stmt.client].held

====
